---------------------------- MODULE Spec2Model ----------------------------
(***************************************************************************)
(* A model of windows-fonts (src/src/lib.rs, src/src/errors.rs): the       *)
(* wrapper layer around the DirectWrite font collection, family and font   *)
(* objects.  The native layer is the environment: every native call's      *)
(* outcome is an input of the action that makes the call.  Each public     *)
(* operation is one action; it leaves in `last` the operation's inputs,    *)
(* the ordered log of native calls it made and the value or exception the  *)
(* caller sees.                                                            *)
(***************************************************************************)
EXTENDS Integers, Sequences, FiniteSets, TLC

VARIABLES
    last,           \* the last public operation: inputs, native calls, result
    userLocale,     \* USER_LOCALE, one slot per thread (thread_local!)
    localLoader,    \* LOCAL_LOADER, one slot per thread (thread_local!)
    localeQueries,  \* per thread: runs of _get_user_locale (history)
    loaderBoots,    \* per thread: runs of _get_local_loader (history)
    heap            \* the live FontFamily and FontVariant objects that are followed

vars == <<last, userLocale, localLoader, localeQueries, loaderBoots, heap>>

----------------------------------------------------------------------------
(* Bounds of the model.                                                    *)

\* worker threads of the process
NumThreads == 2
\* fonts (faces) in a family
MaxFonts == 2
\* families in the collection
MaxFamilies == 2
\* entries of a localized string table
MaxTable == 2
\* runs of a thread-local initializer that a thread may attempt
MaxInits == 2
\* files backing one face
MaxFiles == 2
\* FontFamily and FontVariant objects alive at a time
MaxObjects == 4
\* width of the native index type u32, scaled down; isize keeps one more bit
\* than u32 so that the narrowing cast of FontCollection::__getitem__ is lossy
U32Bits == 3

Threads == 1..NumThreads
\* the thread the compared objects live on (the classes are unsendable)
MainThread == CHOOSE t \in Threads : \A u \in Threads : t <= u

----------------------------------------------------------------------------
(* Option<T>                                                               *)

None == <<>>
Some(v) == <<v>>
is_some(o) == o # <<>>
unwrap_or(o, d) == IF o = <<>> THEN d ELSE o[1]
Opt(S) == {None} \cup {Some(v) : v \in S}

----------------------------------------------------------------------------
(* Errors and their conversion to Python exceptions.                       *)

\* a PyErr built in place: PyValueError::new_err(..), PyOSError::new_err(..)
PyErr(exc, msg) == [tag |-> "PyErr", exc |-> exc, msg |-> msg]
\* windows::core::Error, the failure of a native call
WindowsCoreError == [tag |-> "windows::core::Error", msg |-> "native"]
\* the variants of enum WindowsFontError
WindowsErr == [tag |-> "WindowsFontError", variant |-> "WindowsErr", msg |-> "native"]
Windows10Needed(m) == [tag |-> "WindowsFontError", variant |-> "Windows10Needed", msg |-> m]
KeyNotFound(m) == [tag |-> "WindowsFontError", variant |-> "KeyNotFound", msg |-> m]
\* bail!("..."): an anyhow error that is only a message
AdHoc(m) == [tag |-> "adhoc", msg |-> m]

\* impl From<WindowsFontError> for PyErr
WindowsFontErrorIntoPyErr(e) ==
    CASE e.variant = "WindowsErr"      -> PyErr("OSError", e.msg)
      [] e.variant = "Windows10Needed" -> PyErr("RuntimeError", e.msg)
      [] e.variant = "KeyNotFound"     -> PyErr("KeyError", e.msg)

\* An anyhow::Result returned by a #[pymethods] function: an anyhow error that
\* is a bare PyErr surfaces as that PyErr, any other as RuntimeError.
AnyhowIntoPyErr(e) ==
    IF e.tag = "PyErr" THEN e ELSE PyErr("RuntimeError", e.msg)

\* what the caller of a public operation sees
Ok(v) == [kind |-> "ok", value |-> v]
Raise(pyerr) == [kind |-> "err", exc |-> pyerr.exc, msg |-> pyerr.msg]
Panic(m) == [kind |-> "panic", msg |-> m]
\* results inside the crate
ROk(v) == [ok |-> TRUE, value |-> v]
RErr(e) == [ok |-> FALSE, err |-> e]

----------------------------------------------------------------------------
(* Native objects.                                                         *)

\* enums::Style (DWRITE_FONT_STYLE) and the weights drawn
Styles == {"NORMAL", "ITALIC"}
Weights == {400, 700}
DefaultWeight == 400
Face == [weight : Weights, style : Styles]

RECURSIVE SeqsUpTo(_, _)
SeqsUpTo(S, n) ==
    IF n = 0 THEN {<<>>}
    ELSE LET shorter == SeqsUpTo(S, n - 1)
         IN shorter \cup {Append(s, x) : s \in {q \in shorter : Len(q) = n - 1}, x \in S}

\* the permutations of 1..n, as sequences
Perms(n) == {p \in [1..n -> 1..n] : \A i, j \in 1..n : p[i] = p[j] => i = j}

\* Localized string tables (IDWriteLocalizedStrings): a table holds one string
\* per locale; the string of a table is told by its base name and its locale.
TableLocales == {"en-us", "fr-fr", "de-de"}
BaseNames == {"Arial", "Times"}
LocaleSeqs ==
    {s \in SeqsUpTo(TableLocales, MaxTable) :
        Len(s) >= 1 /\ \A i, j \in 1..Len(s) : s[i] = s[j] => i = j}
StringTable == [base : BaseNames, locales : LocaleSeqs]
\* the string at a native (0-based) index of a table
StringAt(table, index) == <<table.base, table.locales[index + 1]>>

\* A FontFamily object: the Py<FontFamily> identity, and behind its
\* IDWriteFontFamily handle the family's names and fonts.
Family(id, names, fonts) == [id |-> id, names |-> names, fonts |-> fonts]
GetFontCount(family) == Len(family.fonts)

\* canonical font lists, one per length, for the operations that never read a face
CanonicalFaces ==
    [n \in 1..(MaxFonts + 1) |->
        [weight |-> IF n <= 2 THEN 400 ELSE 700,
         style  |-> IF n % 2 = 1 THEN "NORMAL" ELSE "ITALIC"]]
CanonicalFonts(n) == [i \in 1..n |-> CanonicalFaces[i]]
DefaultNames == [base |-> "Arial", locales |-> <<"en-us">>]
MatchFamilies == {Family(1, DefaultNames, CanonicalFonts(n)) : n \in 0..MaxFonts}

\* A FontVariant: the family object it holds and the native font behind it
\* (the font's 0-based index in the family).
FontVariant(family, font) == [family |-> family, font |-> font]
variant_weight(variant) == variant.family.fonts[variant.font + 1].weight
variant_style(variant) == variant.family.fonts[variant.font + 1].style

----------------------------------------------------------------------------
(* FontFamily: the matching-variant protocol.                              *)

MatchArgs ==
    [weight : Opt(Weights), style : Opt(Styles), width : Opt({100}),
     slant : Opt({0}), optical_size : Opt({12}), italic : Opt(BOOLEAN)]

\* The native layer's answers to one matching query on `family`:
\*   canCast   the family can be cast to IDWriteFontFamily2
\*   matchOk   GetMatchingFonts / GetMatchingFonts2 succeeds
\*   list      the ranked font list it returns (0-based font indices)
\*   failAt    the ranks whose GetFont fails
MatchEnv(family) ==
    LET n == GetFontCount(family)
    IN [canCast : BOOLEAN, matchOk : BOOLEAN,
        list : {[i \in 1..n |-> p[i] - 1] : p \in Perms(n)},
        failAt : {{}} \cup {{k} : k \in 0..(n - 1)}]

\* the iterator (0..num).map(|n| list.GetFont(n) ...): its items, in order
FontListItems(rc, env) ==
    [k \in 1..Len(env.list) |->
        IF (k - 1) \in env.failAt
        THEN RErr(WindowsErr)
        ELSE ROk(FontVariant(rc, env.list[k]))]

GetFontCall(n) == [api |-> "IDWriteFontList::GetFont", index |-> n]

\* fn _get_dwrite0_matching_variants
get_dwrite0_matching_variants(rc, weight, style, env) ==
    LET call == [api |-> "GetMatchingFonts",
                 weight |-> unwrap_or(weight, DefaultWeight),
                 stretch |-> "NORMAL",
                 style |-> unwrap_or(style, "NORMAL")]
    IN IF ~env.matchOk
       THEN [ok |-> FALSE, err |-> WindowsCoreError, items |-> <<>>, calls |-> <<call>>]
       ELSE [ok |-> TRUE, err |-> None, items |-> FontListItems(rc, env),
             calls |-> <<call, [api |-> "GetFontCount"]>>]

\* the conditions vector built by _get_dwrite3_matching_variants
AxisConditions(weight, width, slant, optical_size, italic) ==
    (IF is_some(weight) THEN <<[axisTag |-> "WEIGHT", value |-> weight[1]]>> ELSE <<>>)
    \o (IF is_some(width) THEN <<[axisTag |-> "WIDTH", value |-> width[1]]>> ELSE <<>>)
    \o (IF is_some(slant) THEN <<[axisTag |-> "SLANT", value |-> slant[1]]>> ELSE <<>>)
    \o (IF is_some(optical_size)
        THEN <<[axisTag |-> "OPTICAL_SIZE", value |-> optical_size[1]]>> ELSE <<>>)
    \o (IF is_some(italic)
        THEN <<[axisTag |-> "ITALIC", value |-> IF italic[1] THEN 1 ELSE 0]>> ELSE <<>>)

\* fn _get_dwrite3_matching_variants
get_dwrite3_matching_variants(rc, weight, width, slant, optical_size, italic, env) ==
    LET cast == [api |-> "cast::<IDWriteFontFamily2>"]
        call == [api |-> "GetMatchingFonts2",
                 conditions |-> AxisConditions(weight, width, slant, optical_size, italic)]
    IN IF ~env.canCast
       THEN [ok |-> FALSE,
             err |-> PyErr("OSError",
                           "Use of this function requires Windows 10 Build 20348 or above"),
             items |-> <<>>, calls |-> <<cast>>]
       ELSE IF ~env.matchOk
       THEN [ok |-> FALSE, err |-> WindowsCoreError, items |-> <<>>,
             calls |-> <<cast, call>>]
       ELSE [ok |-> TRUE, err |-> None, items |-> FontListItems(rc, env),
             calls |-> <<cast, call, [api |-> "GetFontCount"]>>]

\* _get_matcing_variants with `italic` left out of the exclusion test
get_matcing_variants_italic_unchecked(rc, a, env) ==
    IF is_some(a.style)
    THEN IF is_some(a.width) \/ is_some(a.slant) \/ is_some(a.optical_size)
         THEN [ok |-> FALSE,
               err |-> PyErr("ValueError",
                   "cannot pass style and any of width, slant, optical_size, italic at the same time"),
               items |-> <<>>, calls |-> <<>>]
         ELSE get_dwrite0_matching_variants(rc, a.weight, a.style, env)
    ELSE get_dwrite3_matching_variants(rc, a.weight, a.width, a.slant,
                                       a.optical_size, a.italic, env)

\* fn _get_matcing_variants
get_matcing_variants(rc, a, env) ==
    IF is_some(a.style)
    THEN IF is_some(a.width) \/ is_some(a.slant) \/ is_some(a.optical_size)
            \/ is_some(a.italic)
         THEN [ok |-> FALSE,
               err |-> PyErr("ValueError",
                   "cannot pass style and any of width, slant, optical_size, italic at the same time"),
               items |-> <<>>, calls |-> <<>>]
         ELSE get_dwrite0_matching_variants(rc, a.weight, a.style, env)
    ELSE get_dwrite3_matching_variants(rc, a.weight, a.width, a.slant,
                                       a.optical_size, a.italic, env)

\* get_best_variant draining the iterator and keeping its last item
get_best_variant_last_item(rc, a, env) ==
    LET it == get_matcing_variants(rc, a, env)
        n == Len(it.items)
    IN IF ~it.ok
       THEN [result |-> Raise(AnyhowIntoPyErr(it.err)), calls |-> it.calls]
       ELSE IF n > 0
       THEN [result |-> IF it.items[n].ok
                        THEN Ok(it.items[n].value)
                        ELSE Raise(AnyhowIntoPyErr(it.items[n].err)),
             calls |-> it.calls \o [i \in 1..n |-> GetFontCall(i - 1)]]
       ELSE [result |-> Raise(AnyhowIntoPyErr(AdHoc("No variants found"))),
             calls |-> it.calls]

\* fn get_best_variant: the first item of the iterator, and no other
get_best_variant(rc, a, env) ==
    LET it == get_matcing_variants(rc, a, env)
    IN IF ~it.ok
       THEN [result |-> Raise(AnyhowIntoPyErr(it.err)), calls |-> it.calls]
       ELSE IF Len(it.items) > 0
       THEN [result |-> IF it.items[1].ok
                        THEN Ok(it.items[1].value)
                        ELSE Raise(AnyhowIntoPyErr(it.items[1].err)),
             calls |-> Append(it.calls, GetFontCall(0))]
       ELSE [result |-> Raise(AnyhowIntoPyErr(AdHoc("No variants found"))),
             calls |-> it.calls]

\* the ranks (1-based positions) at which the iterator yields an error
FailingItems(items) == {k \in 1..Len(items) : ~items[k].ok}
Min(S) == CHOOSE x \in S : \A y \in S : x <= y

\* fn get_matching_variants: every item, in order, up to the first failure
get_matching_variants(rc, a, env) ==
    LET it == get_matcing_variants(rc, a, env)
    IN IF ~it.ok
       THEN [result |-> Raise(AnyhowIntoPyErr(it.err)), calls |-> it.calls]
       ELSE IF FailingItems(it.items) # {}
       THEN LET k == Min(FailingItems(it.items))
            IN [result |-> Raise(AnyhowIntoPyErr(it.items[k].err)),
                calls |-> it.calls \o [i \in 1..k |-> GetFontCall(i - 1)]]
       ELSE [result |-> Ok([k \in 1..Len(it.items) |-> it.items[k].value]),
             calls |-> it.calls \o [i \in 1..Len(it.items) |-> GetFontCall(i - 1)]]


----------------------------------------------------------------------------
(* Indexing: FontCollection.__getitem__ and FontFamily.__getitem__.        *)

RECURSIVE Pow2(_)
Pow2(n) == IF n = 0 THEN 1 ELSE 2 * Pow2(n - 1)

\* the value ranges of u32, i32 and isize (isize is wider than u32)
U32Mod == Pow2(U32Bits)
I32 == (0 - Pow2(U32Bits - 1))..(Pow2(U32Bits - 1) - 1)
Isize == (0 - Pow2(U32Bits + 1))..(Pow2(U32Bits + 1) - 1)
\* `x as u32`: the low bits of x
as_u32(x) == x % U32Mod

\* the native families of a collection, and the collections drawn
NativeFamilies ==
    {[names |-> [base |-> b, locales |-> <<"en-us">>], fonts |-> CanonicalFonts(1)] :
        b \in BaseNames}
Collections == SeqsUpTo(NativeFamilies, MaxFamilies)
GetFontFamilyCount(collection) == Len(collection)

\* the keys of FontCollection.__getitem__: enum IntOrStr
IntOrStr ==
    {[type |-> "Int", idx |-> i] : i \in Isize}
    \cup {[type |-> "Str", str |-> n] : n \in BaseNames \cup {"NonexistentFamilyXYZ123"}}

\* native FindFamilyName: whether a family of that name exists, and its index
FamilyNameIndexes(collection, name) ==
    {i \in 0..(Len(collection) - 1) : collection[i + 1].names.base = name}
FindFamilyName(collection, name) ==
    IF FamilyNameIndexes(collection, name) = {}
    THEN [exists |-> FALSE, index |-> U32Mod - 1]
    ELSE [exists |-> TRUE, index |-> Min(FamilyNameIndexes(collection, name))]

\* the wrapper FontFamily(ifamily) of the native family at `index`
WrapFamily(collection, index) ==
    Family(1, collection[index + 1].names, collection[index + 1].fonts)

\* the tail of FontCollection::__getitem__, from the range test on
collection_get_index(collection, index, env, calls) ==
    IF index >= GetFontFamilyCount(collection)
    THEN [result |-> Raise(PyErr("IndexError", "list index out of range")),
          calls |-> Append(calls, [api |-> "GetFontFamilyCount"])]
    ELSE IF ~env.getOk
    THEN [result |-> Raise(WindowsFontErrorIntoPyErr(WindowsErr)),
          calls |-> calls \o <<[api |-> "GetFontFamilyCount"],
                               [api |-> "GetFontFamily", index |-> index]>>]
    ELSE [result |-> Ok(WrapFamily(collection, index)),
          calls |-> calls \o <<[api |-> "GetFontFamilyCount"],
                               [api |-> "GetFontFamily", index |-> index]>>]

\* fn FontCollection::__getitem__
collection_getitem(collection, key, env) ==
    IF key.type = "Str"
    THEN LET call == [api |-> "FindFamilyName", name |-> key.str]
             found == FindFamilyName(collection, key.str)
         IN IF ~env.findOk
            THEN [result |-> Raise(WindowsFontErrorIntoPyErr(WindowsErr)),
                  calls |-> <<call>>]
            ELSE IF ~found.exists
            THEN [result |-> Raise(PyErr("KeyError", "unknown font family")),
                  calls |-> <<call>>]
            ELSE collection_get_index(collection, found.index, env, <<call>>)
    ELSE collection_get_index(collection, as_u32(key.idx), env, <<>>)

\* native IDWriteFontFamily::GetFont: fails for an index past the last font
NativeGetFont(family, index, env) == index < GetFontCount(family) /\ env.getOk

\* FontFamily::__getitem__ without the resolution of a negative index
family_getitem_unresolved(rc, index, env) ==
    LET call == [api |-> "IDWriteFontFamily::GetFont", index |-> as_u32(index)]
    IN IF NativeGetFont(rc, as_u32(index), env)
       THEN [result |-> Ok(FontVariant(rc, as_u32(index))), calls |-> <<call>>]
       ELSE [result |-> Raise(PyErr("IndexError", "key out of range")), calls |-> <<call>>]

\* fn FontFamily::__getitem__
family_getitem(rc, index, env) ==
    LET resolved == IF index < 0 THEN index + GetFontCount(rc) ELSE index
        count == IF index < 0 THEN <<[api |-> "GetFontCount"]>> ELSE <<>>
        call == [api |-> "IDWriteFontFamily::GetFont", index |-> as_u32(resolved)]
    IN IF NativeGetFont(rc, as_u32(resolved), env)
       THEN [result |-> Ok(FontVariant(rc, as_u32(resolved))),
             calls |-> Append(count, call)]
       ELSE [result |-> Raise(PyErr("IndexError", "key out of range")),
             calls |-> Append(count, call)]

IndexEnv == [findOk : BOOLEAN, getOk : BOOLEAN]

----------------------------------------------------------------------------
(* Initial state and the actions of the object operations.                 *)

NoOp == [op |-> "none"]

\* no FontFamily and no FontVariant object yet
EmptyHeap == [families |-> <<>>, variants |-> <<>>]

Init ==
    /\ last = NoOp
    /\ heap = EmptyHeap
    /\ userLocale = [t \in Threads |-> None]
    /\ localLoader = [t \in Threads |-> None]
    /\ localeQueries = [t \in Threads |-> 0]
    /\ loaderBoots = [t \in Threads |-> 0]

caches == <<userLocale, localLoader, localeQueries, loaderBoots>>

\* Calls are synchronous: an operation starts once the caller has taken the
\* result of the one before.
Idle == last = NoOp

\* the caller takes the result
Return ==
    /\ last # NoOp
    /\ last' = NoOp
    /\ UNCHANGED <<caches, heap>>

\* family.get_best_variant(**a)
GetBestVariant ==
    /\ Idle
    /\ \E rc \in MatchFamilies, a \in MatchArgs :
        \E env \in MatchEnv(rc) :
            LET r == get_best_variant(rc, a, env)
            IN last' = [op |-> "get_best_variant", rc |-> rc, args |-> a,
                        env |-> env, result |-> r.result, calls |-> r.calls]
    /\ UNCHANGED <<caches, heap>>

\* family.get_matching_variants(**a)
GetMatchingVariants ==
    /\ Idle
    /\ \E rc \in MatchFamilies, a \in MatchArgs :
        \E env \in MatchEnv(rc) :
            LET r == get_matching_variants(rc, a, env)
            IN last' = [op |-> "get_matching_variants", rc |-> rc, args |-> a,
                        env |-> env, result |-> r.result, calls |-> r.calls]
    /\ UNCHANGED <<caches, heap>>

\* collection[key]
CollectionGetItem ==
    /\ Idle
    /\ \E collection \in Collections, key \in IntOrStr, env \in IndexEnv :
            LET r == collection_getitem(collection, key, env)
            IN last' = [op |-> "FontCollection.__getitem__", collection |-> collection,
                        key |-> key, env |-> env, result |-> r.result, calls |-> r.calls]
    /\ UNCHANGED <<caches, heap>>

\* family[index]
FamilyGetItem ==
    /\ Idle
    /\ \E rc \in MatchFamilies, index \in I32, env \in IndexEnv :
            LET r == family_getitem(rc, index, env)
            IN last' = [op |-> "FontFamily.__getitem__", rc |-> rc, index |-> index,
                        env |-> env, result |-> r.result, calls |-> r.calls]
    /\ UNCHANGED <<caches, heap>>

Next ==
    \/ GetBestVariant
    \/ GetMatchingVariants
    \/ CollectionGetItem
    \/ FamilyGetItem
    \/ Return

Spec == Init /\ [][Next]_vars

----------------------------------------------------------------------------
(* The thread-local caches and best-name resolution.                       *)

\* What GetUserDefaultLocaleName can answer: the length it returns (the
\* terminating NUL counted) and the name it leaves in the buffer.
OsLocaleAnswers ==
    {[len |-> 0, name |-> ""], [len |-> 1, name |-> ""],
     [len |-> 6, name |-> "fr-FR"], [len |-> 6, name |-> "ja-JP"]}

\* the answers that matter to an access of a slot: none when the slot is filled
\* (the OS is not asked)
OsAnswersFor(slot) == IF is_some(slot) THEN {[len |-> 0, name |-> ""]} ELSE OsLocaleAnswers

\* fn _get_user_locale
get_user_locale(os) ==
    IF os.len <= 0 THEN RErr(WindowsCoreError)
    ELSE IF os.len = 1 THEN ROk("en-US")
    ELSE ROk(os.name)

\* USER_LOCALE read without the cache: the OS is asked on every access
user_locale_access_uncached(slot, n, os) ==
    LET r == get_user_locale(os)
        call == [api |-> "GetUserDefaultLocaleName", len |-> os.len]
    IN IF r.ok
       THEN [ok |-> TRUE, slot |-> Some(r.value), n |-> n + 1, calls |-> <<call>>]
       ELSE [ok |-> FALSE, slot |-> None, n |-> n + 1, calls |-> <<call>>]

\* thread_local! static USER_LOCALE: the slot of one thread is filled on that
\* thread's first access by _get_user_locale().unwrap(); an initializer that
\* panics leaves the slot empty, and the next access runs it again.
\* `slot` is the thread's slot and `n` the runs of the initializer so far.
user_locale_access(slot, n, os) ==
    IF is_some(slot)
    THEN [ok |-> TRUE, slot |-> slot, n |-> n, calls |-> <<>>]
    ELSE LET r == get_user_locale(os)
             call == [api |-> "GetUserDefaultLocaleName", len |-> os.len]
         IN IF r.ok
            THEN [ok |-> TRUE, slot |-> Some(r.value), n |-> n + 1, calls |-> <<call>>]
            ELSE [ok |-> FALSE, slot |-> None, n |-> n + 1, calls |-> <<call>>]

\* native FindLocaleName compares locale names without regard to case
LocaleKey(name) ==
    CASE name = "en-US" -> "en-us"
      [] name = "fr-FR" -> "fr-fr"
      [] name = "ja-JP" -> "ja-jp"
      [] OTHER -> name
LocaleIndexes(table, name) ==
    {i \in 0..(Len(table.locales) - 1) : table.locales[i + 1] = LocaleKey(name)}
\* IDWriteLocalizedStrings::FindLocaleName: on success it sets index and found
\* (index UINT_MAX when not found); on failure it leaves them as they were.
FindLocaleName(table, name, ok, index, found) ==
    IF ~ok THEN [ok |-> FALSE, index |-> index, found |-> found]
    ELSE IF LocaleIndexes(table, name) = {}
    THEN [ok |-> TRUE, index |-> U32Mod - 1, found |-> FALSE]
    ELSE [ok |-> TRUE, index |-> Min(LocaleIndexes(table, name)), found |-> TRUE]

\* the native calls of a name resolution that may fail: the two locale
\* lookups, and the calls that fetch the table and the string
LookupCalls == {"FindLocaleName(user)", "FindLocaleName(en-us)"}
FetchCalls == {"GetFamilyNames", "GetStringLength", "GetString"}

\* best_name_index with the "en-us" fallback tried whatever the first lookup
\* returned
best_name_index_always_fallback(table, locale, fails) ==
    LET first == FindLocaleName(table, locale, "FindLocaleName(user)" \notin fails, 0, FALSE)
        again == ~first.found
        second == IF again
                  THEN FindLocaleName(table, "en-us", "FindLocaleName(en-us)" \notin fails,
                                      first.index, first.found)
                  ELSE first
    IN [index |-> IF ~second.found THEN 0 ELSE second.index,
        calls |-> <<[api |-> "FindLocaleName", locale |-> locale, ok |-> first.ok]>>
                  \o (IF again
                      THEN <<[api |-> "FindLocaleName", locale |-> "en-us", ok |-> second.ok]>>
                      ELSE <<>>)]

\* the index chosen by the closure of get_best_name, with the calls it made
best_name_index(table, locale, fails) ==
    LET first == FindLocaleName(table, locale, "FindLocaleName(user)" \notin fails, 0, FALSE)
        again == first.ok /\ ~first.found
        second == IF again
                  THEN FindLocaleName(table, "en-us", "FindLocaleName(en-us)" \notin fails,
                                      first.index, first.found)
                  ELSE first
    IN [index |-> IF ~second.found THEN 0 ELSE second.index,
        calls |-> <<[api |-> "FindLocaleName", locale |-> locale, ok |-> first.ok]>>
                  \o (IF again
                      THEN <<[api |-> "FindLocaleName", locale |-> "en-us", ok |-> second.ok]>>
                      ELSE <<>>)]

\* fn BestLocaleName::get_best_name, on a thread whose USER_LOCALE slot is
\* `slot`: the result (or the panic of the initializer), the slot afterwards
get_best_name(table, slot, n, os, fails) ==
    LET acc == user_locale_access(slot, n, os)
        ix == best_name_index(table, acc.slot[1], fails)
        lenCall == [api |-> "GetStringLength", index |-> ix.index]
        strCall == [api |-> "GetString", index |-> ix.index]
    IN IF ~acc.ok
       THEN [panic |-> TRUE, r |-> RErr(AdHoc("USER_LOCALE initializer panicked")),
             slot |-> acc.slot, n |-> acc.n, calls |-> acc.calls]
       ELSE IF "GetStringLength" \in fails
       THEN [panic |-> FALSE, r |-> RErr(WindowsCoreError), slot |-> acc.slot, n |-> acc.n,
             calls |-> acc.calls \o ix.calls \o <<lenCall>>]
       ELSE IF "GetString" \in fails
       THEN [panic |-> FALSE, r |-> RErr(WindowsCoreError), slot |-> acc.slot, n |-> acc.n,
             calls |-> acc.calls \o ix.calls \o <<lenCall, strCall>>]
       ELSE [panic |-> FALSE, r |-> ROk(StringAt(table, ix.index)), slot |-> acc.slot,
             n |-> acc.n, calls |-> acc.calls \o ix.calls \o <<lenCall, strCall>>]

\* fn FontFamily::_get_best_name
family_get_best_name(family, slot, n, os, fails) ==
    IF "GetFamilyNames" \in fails
    THEN [panic |-> FALSE, r |-> RErr(WindowsCoreError), slot |-> slot, n |-> n,
          calls |-> <<[api |-> "GetFamilyNames"]>>]
    ELSE LET b == get_best_name(family.names, slot, n, os, fails)
         IN [b EXCEPT !.calls = <<[api |-> "GetFamilyNames"]>> \o b.calls]

\* the caller's view of a crate result returned through anyhow
FromAnyhow(b) ==
    IF b.panic THEN Panic(b.r.err.msg)
    ELSE IF b.r.ok THEN Ok(b.r.value)
    ELSE Raise(AnyhowIntoPyErr(b.r.err))

\* the families whose names are resolved
NamedFamilies ==
    {Family(1, names, CanonicalFonts(1)) : names \in {n \in StringTable : n.base = "Arial"}}
\* the native failures of one resolution: any outcome of the two lookups, or
\* one failing fetch
FailSets == SUBSET LookupCalls \cup {{c} : c \in FetchCalls}

\* family.name on thread t
FamilyName(t) ==
    /\ Idle
    /\ is_some(userLocale[t]) \/ localeQueries[t] < MaxInits
    /\ \E family \in NamedFamilies, os \in OsAnswersFor(userLocale[t]), fails \in FailSets :
            LET b == family_get_best_name(family, userLocale[t], localeQueries[t], os, fails)
            IN /\ last' = [op |-> "FontFamily.name", thread |-> t, family |-> family,
                           fails |-> fails, locale |-> b.slot, result |-> FromAnyhow(b),
                           calls |-> b.calls]
               /\ userLocale' = [userLocale EXCEPT ![t] = b.slot]
               /\ localeQueries' = [localeQueries EXCEPT ![t] = b.n]
    /\ UNCHANGED <<localLoader, loaderBoots, heap>>

NextLocale ==
    \/ \E t \in Threads : FamilyName(t)
    \/ Return

SpecLocale == Init /\ [][NextLocale]_vars

----------------------------------------------------------------------------
(* Equality of families and of variants.                                   *)

\* FontFamily equality that compares the two resolutions as they come: two
\* names that both fail to resolve compare equal
family_eq_failures_alike(self, other, slot, n, os, failsSelf, failsOther) ==
    LET compare(name, other_name) ==
            IF name.panic
            THEN [panic |-> TRUE, value |-> FALSE, slot |-> name.slot, n |-> name.n,
                  calls |-> name.calls]
            ELSE [panic |-> other_name.panic,
                  value |-> ~other_name.panic /\ name.r = other_name.r,
                  slot |-> other_name.slot, n |-> other_name.n,
                  calls |-> name.calls \o other_name.calls]
        with_name(name) ==
            compare(name, family_get_best_name(other, name.slot, name.n, os, failsOther))
    IN with_name(family_get_best_name(self, slot, n, os, failsSelf))

\* impl PartialEq for FontFamily: both names are resolved, `self` first; a
\* name that fails to resolve gives false.  The panic of the USER_LOCALE
\* initializer is carried out to the caller of eq.
family_eq(self, other, slot, n, os, failsSelf, failsOther) ==
    LET compare(name, other_name) ==
            IF name.panic
            THEN [panic |-> TRUE, value |-> FALSE, slot |-> name.slot, n |-> name.n,
                  calls |-> name.calls]
            ELSE IF ~name.r.ok
            THEN [panic |-> FALSE, value |-> FALSE, slot |-> name.slot, n |-> name.n,
                  calls |-> name.calls]
            ELSE IF ~other_name.r.ok
            THEN [panic |-> FALSE, value |-> FALSE, slot |-> other_name.slot,
                  n |-> other_name.n, calls |-> name.calls \o other_name.calls]
            ELSE [panic |-> FALSE, value |-> name.r.value = other_name.r.value,
                  slot |-> other_name.slot, n |-> other_name.n,
                  calls |-> name.calls \o other_name.calls]
        with_name(name) ==
            compare(name, family_get_best_name(other, name.slot, name.n, os, failsOther))
    IN with_name(family_get_best_name(self, slot, n, os, failsSelf))

\* impl PartialEq for FontVariant with the style test the other way round
variant_eq_same_style(a, b, slot, n, os, failsA, failsB) ==
    IF variant_weight(a) # variant_weight(b) \/ variant_style(a) # variant_style(b)
    THEN [value |-> FALSE, slot |-> slot, n |-> n, calls |-> <<>>]
    ELSE LET unwrap_or_false(f) ==
                 [value |-> IF f.panic THEN FALSE ELSE f.value,
                  slot |-> f.slot, n |-> f.n, calls |-> f.calls]
         IN unwrap_or_false(family_eq(a.family, b.family, slot, n, os, failsA, failsB))

\* impl PartialEq for FontVariant.  The families are compared through Python
\* (PyAny::eq, which runs FontFamily.__richcmp__): an exception there, the
\* PanicException of a panic included, is unwrap_or(false).
variant_eq(a, b, slot, n, os, failsA, failsB) ==
    IF variant_weight(a) # variant_weight(b) \/ variant_style(a) = variant_style(b)
    THEN [value |-> FALSE, slot |-> slot, n |-> n, calls |-> <<>>]
    ELSE LET unwrap_or_false(f) ==
                 [value |-> IF f.panic THEN FALSE ELSE f.value,
                  slot |-> f.slot, n |-> f.n, calls |-> f.calls]
         IN unwrap_or_false(family_eq(a.family, b.family, slot, n, os, failsA, failsB))

CompareOps == {"Eq", "Ne", "Lt"}

\* fn FontVariant::__richcmp__ (ne is PartialEq's default: the negation of eq)
variant_richcmp(a, b, op, slot, n, os, failsA, failsB) ==
    LET into_py(e, negate) ==
            [result |-> Ok(IF negate THEN ~e.value ELSE e.value), slot |-> e.slot,
             n |-> e.n, calls |-> e.calls]
    IN IF op \in {"Eq", "Ne"}
       THEN into_py(variant_eq(a, b, slot, n, os, failsA, failsB), op = "Ne")
       ELSE [result |-> Ok("NotImplemented"), slot |-> slot, n |-> n, calls |-> <<>>]

\* the variants compared: fonts of families of either name, held by either of
\* two family objects
EqTables ==
    {[base |-> "Arial", locales |-> <<"en-us">>],
     [base |-> "Arial", locales |-> <<"fr-fr", "en-us">>],
     [base |-> "Times", locales |-> <<"en-us">>]}
EqFonts == {CanonicalFonts(MaxFonts)} \cup {<<f>> : f \in {g \in Face : g.weight # DefaultWeight}}
EqFamilies == {Family(id, names, fonts) : id \in {1, 2}, names \in EqTables, fonts \in EqFonts}
EqVariants ==
    UNION {{FontVariant(family, i) : i \in 0..(GetFontCount(family) - 1)} :
            family \in EqFamilies}
EqFailSets == {{}, {"GetFamilyNames"}, {"GetString"}}

\* a == b, a != b, a < b on thread t
VariantRichCmp(t) ==
    /\ Idle
    /\ is_some(userLocale[t]) \/ localeQueries[t] < MaxInits
    /\ \E a \in EqVariants, b \in EqVariants, op \in CompareOps,
            os \in OsAnswersFor(userLocale[t]), failsA \in EqFailSets, failsB \in EqFailSets :
            LET done(r) ==
                    /\ last' = [op |-> "FontVariant.__richcmp__", thread |-> t, a |-> a,
                                b |-> b, cmp |-> op, os |-> os, failsA |-> failsA,
                                failsB |-> failsB,
                                before |-> [slot |-> userLocale[t], n |-> localeQueries[t]],
                                result |-> r.result, calls |-> r.calls]
                    /\ userLocale' = [userLocale EXCEPT ![t] = r.slot]
                    /\ localeQueries' = [localeQueries EXCEPT ![t] = r.n]
            IN done(variant_richcmp(a, b, op, userLocale[t], localeQueries[t], os,
                                    failsA, failsB))
    /\ UNCHANGED <<localLoader, loaderBoots, heap>>

NextEq ==
    \/ VariantRichCmp(MainThread)
    \/ Return

SpecEq == Init /\ [][NextEq]_vars

\* fn FontFamily::__richcmp__ (ne is PartialEq's default: the negation of eq);
\* a panic inside eq unwinds to the caller
family_richcmp(self, other, op, slot, n, os, failsSelf, failsOther) ==
    LET into_py(e, negate) ==
            [result |-> IF e.panic THEN Panic("USER_LOCALE initializer panicked")
                        ELSE Ok(IF negate THEN ~e.value ELSE e.value),
             slot |-> e.slot, n |-> e.n, calls |-> e.calls]
    IN IF op \in {"Eq", "Ne"}
       THEN into_py(family_eq(self, other, slot, n, os, failsSelf, failsOther), op = "Ne")
       ELSE [result |-> Ok("NotImplemented"), slot |-> slot, n |-> n, calls |-> <<>>]

\* the family objects compared
CmpFamilies == {Family(id, names, CanonicalFonts(1)) : id \in {1, 2}, names \in EqTables}

\* a == b, a != b, a < b for two families, on thread t
FamilyRichCmp(t) ==
    /\ Idle
    /\ is_some(userLocale[t]) \/ localeQueries[t] < MaxInits
    /\ \E a \in CmpFamilies, b \in CmpFamilies, op \in CompareOps,
            os \in OsAnswersFor(userLocale[t]), failsA \in FailSets, failsB \in FailSets :
            LET done(r) ==
                    /\ last' = [op |-> "FontFamily.__richcmp__", thread |-> t, a |-> a,
                                b |-> b, cmp |-> op, os |-> os, failsA |-> failsA,
                                failsB |-> failsB,
                                before |-> [slot |-> userLocale[t], n |-> localeQueries[t]],
                                result |-> r.result, calls |-> r.calls]
                    /\ userLocale' = [userLocale EXCEPT ![t] = r.slot]
                    /\ localeQueries' = [localeQueries EXCEPT ![t] = r.n]
            IN done(family_richcmp(a, b, op, userLocale[t], localeQueries[t], os,
                                   failsA, failsB))
    /\ UNCHANGED <<localLoader, loaderBoots, heap>>

NextFamilyEq ==
    \/ FamilyRichCmp(MainThread)
    \/ Return

SpecFamilyEq == Init /\ [][NextFamilyEq]_vars

----------------------------------------------------------------------------
(* The local-file loader and the files of a variant.                       *)

\* reference keys of font files, and the path the local loader gives for one
FileKeys == {"key1", "key2"}
PathOf(key) == <<"path of", key>>
\* the files a face reports: GetFiles may hand out empty entries
FileLists == SeqsUpTo(Opt(FileKeys), MaxFiles)

\* The native failures of one files() call: at most one call fails; `at` is the
\* position of the file a per-file call is made for (0: not a per-file call).
FilesFailures ==
    {None}
    \cup {Some([call |-> c, at |-> 0]) : c \in {"CreateFontFace", "GetFiles(count)", "GetFiles(fetch)"}}
    \cup {Some([call |-> c, at |-> i]) :
            c \in {"GetReferenceKey", "GetFilePathLengthFromKey", "GetFilePathFromKey"},
            i \in 1..MaxFiles}
Fails(env, c, i) == env.fail = Some([call |-> c, at |-> i])

\* fn _get_local_loader: the handle made by run `n` of the initializer on thread t
get_local_loader(t, n, bootOk) ==
    IF bootOk THEN ROk([thread |-> t, boot |-> n]) ELSE RErr(WindowsCoreError)

\* LOCAL_LOADER read without the cache: a loader is made on every access
local_loader_access_uncached(t, slot, n, bootOk) ==
    LET r == get_local_loader(t, n + 1, bootOk)
        call == [api |-> "CreateFontFileReference(Arial.ttf)", ok |-> bootOk]
    IN IF r.ok
       THEN [ok |-> TRUE, slot |-> Some(r.value), n |-> n + 1, calls |-> <<call>>]
       ELSE [ok |-> FALSE, slot |-> None, n |-> n + 1, calls |-> <<call>>]

\* thread_local! static LOCAL_LOADER: filled on the thread's first access by
\* _get_local_loader().unwrap(); an initializer that panics leaves the slot
\* empty, and the next access runs it again.
local_loader_access(t, slot, n, bootOk) ==
    IF is_some(slot)
    THEN [ok |-> TRUE, slot |-> slot, n |-> n, calls |-> <<>>]
    ELSE LET r == get_local_loader(t, n + 1, bootOk)
             call == [api |-> "CreateFontFileReference(Arial.ttf)", ok |-> bootOk]
         IN IF r.ok
            THEN [ok |-> TRUE, slot |-> Some(r.value), n |-> n + 1, calls |-> <<call>>]
            ELSE [ok |-> FALSE, slot |-> None, n |-> n + 1, calls |-> <<call>>]

\* the loop of _get_files over font_files.iter().flatten(), from position i on.
\* st: the thread's LOCAL_LOADER slot, the runs of its initializer, the native
\* calls made and the names pushed so far.
RECURSIVE get_files_loop(_, _, _, _)
get_files_loop(t, env, i, st) ==
    IF i > Len(env.files)
    THEN [panic |-> FALSE, r |-> ROk(st.filenames), slot |-> st.slot, n |-> st.n,
          calls |-> st.calls]
    ELSE IF env.files[i] = None
    THEN get_files_loop(t, env, i + 1, st)
    ELSE
      LET key == env.files[i][1]
          keyCall == [api |-> "GetReferenceKey", file |-> i]
          acc == local_loader_access(t, st.slot, st.n, env.bootOk)
          lenCall == [api |-> "GetFilePathLengthFromKey", key |-> key, loader |-> acc.slot]
          pathCall == [api |-> "GetFilePathFromKey", key |-> key, loader |-> acc.slot]
      IN IF Fails(env, "GetReferenceKey", i)
         THEN [panic |-> FALSE, r |-> RErr(WindowsCoreError), slot |-> st.slot, n |-> st.n,
               calls |-> Append(st.calls, keyCall)]
         ELSE IF ~acc.ok
         THEN [panic |-> TRUE, r |-> RErr(AdHoc("LOCAL_LOADER initializer panicked")),
               slot |-> acc.slot, n |-> acc.n,
               calls |-> Append(st.calls, keyCall) \o acc.calls]
         ELSE IF Fails(env, "GetFilePathLengthFromKey", i)
         THEN [panic |-> TRUE, r |-> RErr(AdHoc("GetFilePathLengthFromKey failed")),
               slot |-> acc.slot, n |-> acc.n,
               calls |-> Append(st.calls, keyCall) \o acc.calls \o <<lenCall>>]
         ELSE IF Fails(env, "GetFilePathFromKey", i)
         THEN [panic |-> TRUE, r |-> RErr(AdHoc("GetFilePathFromKey failed")),
               slot |-> acc.slot, n |-> acc.n,
               calls |-> Append(st.calls, keyCall) \o acc.calls \o <<lenCall, pathCall>>]
         ELSE get_files_loop(t, env, i + 1,
                [slot |-> acc.slot, n |-> acc.n,
                 calls |-> Append(st.calls, keyCall) \o acc.calls \o <<lenCall, pathCall>>,
                 filenames |-> Append(st.filenames, PathOf(key))])

\* fn FontVariant::_get_files, on thread t
get_files(t, env, slot, n) ==
    LET face == [api |-> "CreateFontFace"]
        count == [api |-> "GetFiles", fetch |-> FALSE]
        fetch == [api |-> "GetFiles", fetch |-> TRUE]
        stop(calls) == [panic |-> FALSE, r |-> RErr(WindowsCoreError), slot |-> slot,
                        n |-> n, calls |-> calls]
    IN IF Fails(env, "CreateFontFace", 0) THEN stop(<<face>>)
       ELSE IF Fails(env, "GetFiles(count)", 0) THEN stop(<<face, count>>)
       ELSE IF Fails(env, "GetFiles(fetch)", 0) THEN stop(<<face, count, fetch>>)
       ELSE get_files_loop(t, env, 1,
                [slot |-> slot, n |-> n, calls |-> <<face, count, fetch>>,
                 filenames |-> <<>>])

\* fn FontVariant::files
files(t, env, slot, n) ==
    LET g == get_files(t, env, slot, n)
    IN [result |-> FromAnyhow(g), slot |-> g.slot, n |-> g.n, calls |-> g.calls]

\* FontVariant::filename that settles for the first of several files
filename_first_of_many(t, env, slot, n) ==
    LET names == files(t, env, slot, n)
    IN IF names.result.kind # "ok" THEN names
       ELSE IF Len(names.result.value) = 0
       THEN [names EXCEPT !.result =
                Raise(PyErr("RuntimeError",
                            "FontVariant had more than one name, please use .files()"))]
       ELSE [names EXCEPT !.result = Ok(names.result.value[1])]

\* fn FontVariant::filename
filename(t, env, slot, n) ==
    LET names == files(t, env, slot, n)
    IN IF names.result.kind # "ok" THEN names
       ELSE IF Len(names.result.value) # 1
       THEN [names EXCEPT !.result =
                Raise(PyErr("RuntimeError",
                            "FontVariant had more than one name, please use .files()"))]
       ELSE [names EXCEPT !.result = Ok(names.result.value[1])]

\* the native answers to one files() call; whether the bootstrap of the loader
\* would succeed matters only while the thread's slot is empty
FilesEnv(slot) ==
    [files : FileLists, fail : FilesFailures,
     bootOk : IF is_some(slot) THEN {TRUE} ELSE BOOLEAN]

\* variant.files() on thread t
Files(t) ==
    /\ Idle
    /\ is_some(localLoader[t]) \/ loaderBoots[t] < MaxInits
    /\ \E env \in FilesEnv(localLoader[t]) :
            LET r == files(t, env, localLoader[t], loaderBoots[t])
            IN /\ last' = [op |-> "FontVariant.files", thread |-> t, env |-> env,
                           before |-> [slot |-> localLoader[t], n |-> loaderBoots[t]],
                           result |-> r.result, calls |-> r.calls]
               /\ localLoader' = [localLoader EXCEPT ![t] = r.slot]
               /\ loaderBoots' = [loaderBoots EXCEPT ![t] = r.n]
    /\ UNCHANGED <<userLocale, localeQueries, heap>>

\* variant.filename on thread t
Filename(t) ==
    /\ Idle
    /\ is_some(localLoader[t]) \/ loaderBoots[t] < MaxInits
    /\ \E env \in FilesEnv(localLoader[t]) :
            LET r == filename(t, env, localLoader[t], loaderBoots[t])
            IN /\ last' = [op |-> "FontVariant.filename", thread |-> t, env |-> env,
                           before |-> [slot |-> localLoader[t], n |-> loaderBoots[t]],
                           result |-> r.result, calls |-> r.calls]
               /\ localLoader' = [localLoader EXCEPT ![t] = r.slot]
               /\ loaderBoots' = [loaderBoots EXCEPT ![t] = r.n]
    /\ UNCHANGED <<userLocale, localeQueries, heap>>

NextLoader ==
    \/ \E t \in Threads : Files(t)
    \/ \E t \in Threads : Filename(t)
    \/ Return

SpecLoader == Init /\ [][NextLoader]_vars

----------------------------------------------------------------------------
(* The informational strings of a font: InformationDict.                   *)

\* static INFO_STRING_NAMES: per field name, the native informational-string
\* id and the native property id (NONE: no property mapping).  The ids are
\* written without their DWRITE_INFORMATIONAL_STRING_ / DWRITE_FONT_PROPERTY_ID_
\* prefixes.
INFO_STRING_NAMES ==
    << [name |-> "copyright",
        id |-> "COPYRIGHT_NOTICE", property |-> "NONE"],
       [name |-> "versions",
        id |-> "VERSION_STRINGS", property |-> "NONE"],
       [name |-> "trademark",
        id |-> "TRADEMARK", property |-> "NONE"],
       [name |-> "manufacturer",
        id |-> "MANUFACTURER", property |-> "NONE"],
       [name |-> "designer",
        id |-> "DESIGNER", property |-> "NONE"],
       [name |-> "designer_url",
        id |-> "DESIGNER_URL", property |-> "NONE"],
       [name |-> "description",
        id |-> "DESCRIPTION", property |-> "NONE"],
       [name |-> "vendor_url",
        id |-> "FONT_VENDOR_URL", property |-> "NONE"],
       [name |-> "license_description",
        id |-> "LICENSE_DESCRIPTION", property |-> "NONE"],
       [name |-> "license_info_url",
        id |-> "LICENSE_INFO_URL", property |-> "NONE"],
       [name |-> "win32_family_names",
        id |-> "WIN32_FAMILY_NAMES", property |-> "WIN32_FAMILY_NAME"],
       [name |-> "win32_subfamily_names",
        id |-> "WIN32_SUBFAMILY_NAMES", property |-> "NONE"],
       [name |-> "typographic_family_names",
        id |-> "TYPOGRAPHIC_FAMILY_NAMES", property |-> "TYPOGRAPHIC_FAMILY_NAME"],
       [name |-> "typographic_subfamily_names",
        id |-> "TYPOGRAPHIC_SUBFAMILY_NAMES", property |-> "NONE"],
       [name |-> "sample_text",
        id |-> "SAMPLE_TEXT", property |-> "NONE"],
       [name |-> "full_name",
        id |-> "FULL_NAME", property |-> "FULL_NAME"],
       [name |-> "postscript_name",
        id |-> "POSTSCRIPT_NAME", property |-> "POSTSCRIPT_NAME"],
       [name |-> "postscript_cid_name",
        id |-> "POSTSCRIPT_CID_NAME", property |-> "NONE"],
       [name |-> "weight_stretch_style_family_name",
        id |-> "WEIGHT_STRETCH_STYLE_FAMILY_NAME", property |-> "WEIGHT_STRETCH_STYLE_FAMILY_NAME"],
       [name |-> "design_script_language_tag",
        id |-> "DESIGN_SCRIPT_LANGUAGE_TAG", property |-> "DESIGN_SCRIPT_LANGUAGE_TAG"],
       [name |-> "supported_script_language_tag",
        id |-> "SUPPORTED_SCRIPT_LANGUAGE_TAG", property |-> "SUPPORTED_SCRIPT_LANGUAGE_TAG"],
       [name |-> "preferred_family_names",
        id |-> "PREFERRED_FAMILY_NAMES", property |-> "PREFERRED_FAMILY_NAME"],
       [name |-> "preferred_subfamily_names",
        id |-> "PREFERRED_SUBFAMILY_NAMES", property |-> "FAMILY_NAME"],
       [name |-> "wss_family_name",
        id |-> "WWS_FAMILY_NAME", property |-> "NONE"] >>

TableNames == {INFO_STRING_NAMES[k].name : k \in 1..Len(INFO_STRING_NAMES)}
\* INFO_STRING_NAMES.get(name)
TableGet(name) ==
    IF name \in TableNames
    THEN Some(CHOOSE e \in {INFO_STRING_NAMES[k] : k \in 1..Len(INFO_STRING_NAMES)} :
                e.name = name)
    ELSE None

\* the order of Python's str comparison on the names of the table, in which
\* list.sort() leaves them
PyStrOrder ==
    << "copyright", "description", "design_script_language_tag", "designer",
       "designer_url", "full_name", "license_description",
       "license_info_url", "manufacturer", "postscript_cid_name",
       "postscript_name", "preferred_family_names",
       "preferred_subfamily_names", "sample_text",
       "supported_script_language_tag", "trademark",
       "typographic_family_names", "typographic_subfamily_names",
       "vendor_url", "versions", "weight_stretch_style_family_name",
       "win32_family_names", "win32_subfamily_names", "wss_family_name" >>
KeyRank(name) == CHOOSE k \in 1..Len(PyStrOrder) : PyStrOrder[k] = name

\* list.sort() on a list of names of the table: ascending, equal names kept
\* in their order
RECURSIVE list_sort(_)
list_sort(list) ==
    IF list = <<>> THEN <<>>
    ELSE LET least == CHOOSE k \in 1..Len(list) :
                        \A j \in 1..Len(list) :
                            \/ KeyRank(list[k]) < KeyRank(list[j])
                            \/ KeyRank(list[k]) = KeyRank(list[j]) /\ k <= j
             rest == [j \in 1..(Len(list) - 1) |-> IF j < least THEN list[j] ELSE list[j + 1]]
         IN <<list[least]>> \o list_sort(rest)

\* The fields a font is asked about with an answer other than "does not
\* exist"; what GetInformationalStrings answers for each of them; and the
\* order in which the static map hands out its entries (it is a hash map: the
\* order is fixed by the build and unrelated to the order of the names).
InfoFieldsDrawn == {"copyright", "versions", "trademark", "designer"}
InfoAnswers == {"exists", "absent", "error"}
InfoOrders ==
    {o \in [1..Cardinality(InfoFieldsDrawn) -> InfoFieldsDrawn] :
        \A i, j \in DOMAIN o : o[i] = o[j] => i = j}
InfoEnv == [answer : [InfoFieldsDrawn -> InfoAnswers], order : InfoOrders]
\* INFO_STRING_NAMES.entries(): the drawn fields in the map's order, then the
\* other fields (which the font does not have)
Entries(env) ==
    LET others == SelectSeq(INFO_STRING_NAMES, LAMBDA e : e.name \notin InfoFieldsDrawn)
    IN [k \in 1..Cardinality(InfoFieldsDrawn) |-> TableGet(env.order[k])[1]] \o others

\* fn get_info_string: Ok(Some(strings)) when the native call reports that
\* the field exists, Ok(None) when it does not, Err when the call fails
get_info_string(env, id) ==
    LET named == {n \in InfoFieldsDrawn : TableGet(n)[1].id = id}
        answers == {env.answer[n] : n \in named}
    IN IF "error" \in answers THEN RErr(WindowsCoreError)
       ELSE IF "exists" \in answers
       THEN ROk(Some([base |-> id, locales |-> <<"en-us">>]))
       ELSE ROk(None)

\* fn InformationDict::_valid_information_keys: the (key, id) of the entries
\* whose query gives Ok(Some(_)); a failed query drops the entry silently
valid_information_keys(env) ==
    LET exists(e) == LET r == get_info_string(env, e.id) IN r.ok /\ is_some(r.value)
        kept == SelectSeq(Entries(env), exists)
    IN [k \in 1..Len(kept) |-> [key |-> kept[k].name, id |-> kept[k].id]]

\* the keys of the dict protocol: a str, an int (a native id) or anything else
InfoKeys ==
    {[type |-> "Str", str |-> n] : n \in InfoFieldsDrawn \cup {"full_name", "colour"}}
    \cup {[type |-> "Int", id |-> TableGet(n)[1].id] : n \in InfoFieldsDrawn}
    \cup {[type |-> "Other"]}

\* fn InformationDict::__len__
InformationDict_len(env) == Ok(Len(valid_information_keys(env)))

\* fn InformationDict::__contains__
InformationDict_contains(env, key) ==
    LET valid == valid_information_keys(env)
    IN CASE key.type = "Str" -> Ok(\E k \in 1..Len(valid) : valid[k].key = key.str)
         [] key.type = "Int" -> Ok(\E k \in 1..Len(valid) : valid[k].id = key.id)
         [] OTHER -> Ok(FALSE)

\* InformationDict::keys without the final list.sort()
InformationDict_keys_unsorted(env) ==
    LET valid == valid_information_keys(env)
    IN Ok([k \in 1..Len(valid) |-> valid[k].key])

\* fn InformationDict::keys
InformationDict_keys(env) ==
    LET valid == valid_information_keys(env)
    IN Ok(list_sort([k \in 1..Len(valid) |-> valid[k].key]))

\* the native calls of one pass over the entries: one query per entry
InfoQueries(env) ==
    [k \in 1..Len(Entries(env)) |->
        [api |-> "GetInformationalStrings", id |-> Entries(env)[k].id]]

\* the native calls of __contains__: any() stops at the first entry that exists
\* and matches; a key that is neither str nor int is answered without a query
ContainsQueries(env, key) ==
    LET hit(k) == /\ get_info_string(env, Entries(env)[k].id).ok
                  /\ is_some(get_info_string(env, Entries(env)[k].id).value)
                  /\ \/ key.type = "Str" /\ Entries(env)[k].name = key.str
                     \/ key.type = "Int" /\ Entries(env)[k].id = key.id
        hits == {k \in 1..Len(Entries(env)) : hit(k)}
    IN IF key.type = "Other" THEN <<>>
       ELSE IF hits = {} THEN InfoQueries(env)
       ELSE SubSeq(InfoQueries(env), 1, Min(hits))

\* dict.keys()
InformationKeys ==
    /\ Idle
    /\ \E env \in InfoEnv :
            last' = [op |-> "InformationDict.keys", env |-> env,
                     result |-> InformationDict_keys(env), calls |-> InfoQueries(env)]
    /\ UNCHANGED <<caches, heap>>

\* len(dict)
InformationLen ==
    /\ Idle
    /\ \E env \in InfoEnv :
            last' = [op |-> "InformationDict.__len__", env |-> env,
                     result |-> InformationDict_len(env), calls |-> InfoQueries(env)]
    /\ UNCHANGED <<caches, heap>>

\* key in dict
InformationContains ==
    /\ Idle
    /\ \E env \in InfoEnv, key \in InfoKeys :
            last' = [op |-> "InformationDict.__contains__", env |-> env, key |-> key,
                     result |-> InformationDict_contains(env, key),
                     calls |-> ContainsQueries(env, key)]
    /\ UNCHANGED <<caches, heap>>

NextInfo ==
    \/ InformationKeys
    \/ InformationLen
    \/ InformationContains
    \/ Return

SpecInfo == Init /\ [][NextInfo]_vars

----------------------------------------------------------------------------
(* The module-level search get_matching_variants, with keyword filters.     *)

\* The keyword arguments with the order in which the HashMap hands them out:
\* None when no keyword is passed, else the (name, value) pairs in iteration
\* order.  Two names have a property mapping, one has none, one is unknown.
FilterNames == {"full_name", "postscript_name", "copyright", "colour"}
FilterSeqs ==
    {q \in SeqsUpTo(FilterNames, Cardinality(FilterNames)) :
        Len(q) >= 1 /\ \A i, j \in 1..Len(q) : q[i] = q[j] => i = j}
SearchKwargs ==
    {None} \cup {Some([k \in 1..Len(q) |-> [name |-> q[k], val |-> "Regular"]]) : q \in FilterSeqs}

\* the faces of the system font set: the native family of each and the face's
\* index in it
SearchFaces == [native : NativeFamilies, font : {0}]
\* The native failures of one search: at most one call fails; `at` is the
\* (0-based) face a per-face call is made for, -1 for the calls before.
SearchFailures ==
    {None}
    \cup {Some([call |-> c, at |-> 0 - 1]) :
            c \in {"DWriteCreateFactory", "GetSystemFontSet", "GetMatchingFonts2",
                   "GetSystemFontCollection"}}
    \cup {Some([call |-> c, at |-> n]) :
            c \in {"GetFontFaceReference", "CreateFontFace", "cast",
                   "GetFontFromFontFace", "GetFontFamily"},
            n \in 0..(MaxFonts - 1)}
\* The native answers to one search: the faces GetMatchingFonts2 answers with
\* (the filter values it reads are the buffers of HSTRING temporaries that
\* were dropped when each filter was pushed, so its answer is not tied to the
\* values passed), the failing call, and whether GetSystemFontCollection
\* hands out a collection when it reports success.
SearchEnv ==
    [faces : SeqsUpTo(SearchFaces, MaxFonts), fail : SearchFailures, collectionGiven : BOOLEAN]

\* the loop over kwargs: the first name that is unknown or has no property
\* mapping ends the call; 0 when every name has a property id
FirstBadFilter(pairs) ==
    LET bad == {k \in 1..Len(pairs) :
                    \/ TableGet(pairs[k].name) = None
                    \/ TableGet(pairs[k].name)[1].property = "NONE"}
    IN IF bad = {} THEN 0 ELSE Min(bad)

\* the closure win_api_block; `free` are the identities the new FontFamily
\* objects get, in order
win_api_block(filters, env, free) ==
    LET fails(c, n) == env.fail = Some([call |-> c, at |-> n])
        head == <<[api |-> "DWriteCreateFactory"], [api |-> "GetSystemFontSet"],
                  [api |-> "GetMatchingFonts2", properties |-> filters],
                  [api |-> "GetFontCount"], [api |-> "GetSystemFontCollection"]>>
        count == Len(env.faces)
        perFace == <<"GetFontFaceReference", "CreateFontFace", "cast",
                     "GetFontFromFontFace", "GetFontFamily">>
        \* the calls made for face n, up to and including a failing one
        faceCalls(n) ==
            LET failing == {c \in 1..Len(perFace) : fails(perFace[c], n)}
                last_call == IF failing = {} THEN Len(perFace) ELSE Min(failing)
            IN [c \in 1..last_call |-> [api |-> perFace[c], face |-> n]]
        failingFaces == {n \in 0..(count - 1) : \E c \in 1..Len(perFace) : fails(perFace[c], n)}
        done == IF failingFaces = {} THEN count ELSE Min(failingFaces) + 1
        RECURSIVE callsUpTo(_)
        callsUpTo(n) == IF n = 0 THEN <<>> ELSE callsUpTo(n - 1) \o faceCalls(n - 1)
        variant(n) ==
            FontVariant(Family(free[n + 1], env.faces[n + 1].native.names,
                               env.faces[n + 1].native.fonts),
                        env.faces[n + 1].font)
    IN IF fails("DWriteCreateFactory", 0 - 1)
       THEN [panic |-> FALSE, r |-> RErr(WindowsCoreError), calls |-> SubSeq(head, 1, 1)]
       ELSE IF fails("GetSystemFontSet", 0 - 1)
       THEN [panic |-> FALSE, r |-> RErr(WindowsCoreError), calls |-> SubSeq(head, 1, 2)]
       ELSE IF fails("GetMatchingFonts2", 0 - 1)
       THEN [panic |-> FALSE, r |-> RErr(WindowsCoreError), calls |-> SubSeq(head, 1, 3)]
       ELSE IF fails("GetSystemFontCollection", 0 - 1)
       THEN [panic |-> FALSE, r |-> RErr(WindowsCoreError), calls |-> head]
       ELSE IF ~env.collectionGiven
       THEN [panic |-> TRUE,
             r |-> RErr(AdHoc("GetSystemFontCollection had not error but gave us no collection")),
             calls |-> head]
       ELSE IF failingFaces # {}
       THEN [panic |-> FALSE, r |-> RErr(WindowsCoreError), calls |-> head \o callsUpTo(done)]
       ELSE [panic |-> FALSE, r |-> ROk([n \in 1..count |-> variant(n - 1)]),
             calls |-> head \o callsUpTo(count)]

\* the module-level search that skips a filter without a property id instead
\* of rejecting the call
global_get_matching_variants_skipping(kwargs, env, free) ==
    IF kwargs = None
    THEN [result |-> Raise(PyErr("TypeError", "no filter conditions passed")), calls |-> <<>>]
    ELSE LET pairs == kwargs[1]
             good == SelectSeq(pairs, LAMBDA f : /\ TableGet(f.name) # None
                                                /\ TableGet(f.name)[1].property # "NONE")
             filters == [k \in 1..Len(good) |-> TableGet(good[k].name)[1].property]
             into_py(b) ==
                 [result |-> IF b.panic THEN Panic(b.r.err.msg)
                             ELSE IF b.r.ok THEN Ok(b.r.value)
                             ELSE Raise(WindowsFontErrorIntoPyErr(WindowsErr)),
                  calls |-> b.calls]
         IN into_py(win_api_block(filters, env, free))

\* #[pyfunction] fn get_matching_variants(kwargs)
global_get_matching_variants(kwargs, env, free) ==
    IF kwargs = None
    THEN [result |-> Raise(PyErr("TypeError", "no filter conditions passed")), calls |-> <<>>]
    ELSE LET pairs == kwargs[1]
             bad == FirstBadFilter(pairs)
             filters == [k \in 1..Len(pairs) |-> TableGet(pairs[k].name)[1].property]
             into_py(b) ==
                 [result |-> IF b.panic THEN Panic(b.r.err.msg)
                             ELSE IF b.r.ok THEN Ok(b.r.value)
                             ELSE Raise(WindowsFontErrorIntoPyErr(WindowsErr)),
                  calls |-> b.calls]
         IN IF bad # 0 /\ TableGet(pairs[bad].name) = None
            THEN [result |-> Raise(PyErr("TypeError", "isn't a known font property name")),
                  calls |-> <<>>]
            ELSE IF bad # 0
            THEN [result |-> Raise(PyErr("TypeError",
                                         "doesn't have a mapping to font property id")),
                  calls |-> <<>>]
            ELSE into_py(win_api_block(filters, env, free))

\* the identities not in use, in ascending order
RECURSIVE Ascending(_)
Ascending(S) == IF S = {} THEN <<>> ELSE <<Min(S)>> \o Ascending(S \ {Min(S)})
LiveIds(h) == DOMAIN h.families \cup DOMAIN h.variants
FreeIds(h) == Ascending((1..MaxObjects) \ LiveIds(h))

\* the module-level get_matching_variants; the objects it returns are not followed
GlobalSearch ==
    /\ Idle
    /\ \E kwargs \in SearchKwargs, env \in SearchEnv :
            LET done(r) ==
                    last' = [op |-> "module.get_matching_variants", kwargs |-> kwargs,
                             env |-> env, result |-> r.result, calls |-> r.calls]
            IN done(global_get_matching_variants(kwargs, env, FreeIds(heap)))
    /\ UNCHANGED <<caches, heap>>

NextSearch ==
    \/ GlobalSearch
    \/ Return

SpecSearch == Init /\ [][NextSearch]_vars

----------------------------------------------------------------------------
(* The objects: who holds whom.                                            *)
(* The actions above log one call each and do not follow the objects it    *)
(* returns.  The actions below follow the FontFamily and FontVariant       *)
(* objects through the calls that make them and the releases that end them.*)
(* heap.families[id]: the native family behind the object, the number of   *)
(* strong references to it (Py<FontFamily>), and whether the caller holds   *)
(* one of them; heap.variants[id]: the family object that the field         *)
(* `family` points to and the native font.  A FontVariant object is held by *)
(* the caller until it is released.                                         *)

\* the system font collection of these runs
HeapCollection ==
    <<[names |-> [base |-> "Arial", locales |-> <<"en-us">>], fonts |-> CanonicalFonts(MaxFonts)],
      [names |-> [base |-> "Times", locales |-> <<"en-us">>], fonts |-> CanonicalFonts(1)]>>

\* the object `id` as the operations take it
FamilyObject(h, id) ==
    Family(id, h.families[id].native.names, h.families[id].native.fonts)

\* struct fields that point to other objects: FontVariant.family; FontFamily
\* has the native handle only
Owns(h, id) == IF id \in DOMAIN h.variants THEN {h.variants[id].family} ELSE {}

\* a function without the point id
Without(f, id) == [x \in DOMAIN f \ {id} |-> f[x]]

\* drop of one Py<FontFamily>: the count goes down, and the object goes when
\* the count reaches zero
drop_family_ref(h, id, byCaller) ==
    IF h.families[id].refs = 1
    THEN [h EXCEPT !.families = Without(h.families, id)]
    ELSE [h EXCEPT !.families[id].refs = @ - 1,
                   !.families[id].held = IF byCaller THEN FALSE ELSE @]

\* FontVariant objects made without a reference of their own to a family
\* that is already there
adopt_borrowing(h, made) ==
    LET famIds == {made[k].family.id : k \in 1..Len(made)}
        newIds == SelectSeq(FreeIds(h), LAMBDA i : i \notin famIds)
        count(id) == Cardinality({k \in 1..Len(made) : made[k].family.id = id})
        native(id) == LET v == made[CHOOSE k \in 1..Len(made) : made[k].family.id = id]
                      IN [names |-> v.family.names, fonts |-> v.family.fonts]
    IN [families |->
            [id \in DOMAIN h.families \cup famIds |->
                IF id \in DOMAIN h.families
                THEN h.families[id]
                ELSE [native |-> native(id), refs |-> count(id), held |-> FALSE]],
        variants |->
            [id \in DOMAIN h.variants \cup {newIds[k] : k \in 1..Len(made)} |->
                IF id \in DOMAIN h.variants
                THEN h.variants[id]
                ELSE LET k == CHOOSE j \in 1..Len(made) : newIds[j] = id
                     IN [family |-> made[k].family.id, font |-> made[k].font]]]

\* The FontVariant values `made` by a call become objects: each holds in its
\* field `family` one strong reference, a clone of rc (family: rc.clone()) or
\* the Py::new of the module-level search.
adopt(h, made) ==
    LET famIds == {made[k].family.id : k \in 1..Len(made)}
        newIds == SelectSeq(FreeIds(h), LAMBDA i : i \notin famIds)
        count(id) == Cardinality({k \in 1..Len(made) : made[k].family.id = id})
        native(id) == LET v == made[CHOOSE k \in 1..Len(made) : made[k].family.id = id]
                      IN [names |-> v.family.names, fonts |-> v.family.fonts]
    IN [families |->
            [id \in DOMAIN h.families \cup famIds |->
                IF id \in DOMAIN h.families
                THEN [h.families[id] EXCEPT !.refs = @ + count(id)]
                ELSE [native |-> native(id), refs |-> count(id), held |-> FALSE]],
        variants |->
            [id \in DOMAIN h.variants \cup {newIds[k] : k \in 1..Len(made)} |->
                IF id \in DOMAIN h.variants
                THEN h.variants[id]
                ELSE LET k == CHOOSE j \in 1..Len(made) : newIds[j] = id
                     IN [family |-> made[k].family.id, font |-> made[k].font]]]

\* the FontVariant values a result carries: one, or a list
MadeOne(result) == IF result.kind = "ok" THEN <<result.value>> ELSE <<>>
MadeMany(result) == IF result.kind = "ok" THEN result.value ELSE <<>>

\* a call on the family object rc has returned `result`
FamilyCallDone(op, rc, kind, made) ==
    /\ Len(made) <= Len(FreeIds(heap))
    /\ heap' = adopt(heap, made)
    /\ last' = [op |-> op, rc |-> rc, kind |-> kind]

\* the families the caller can call: those it holds
HeldFamilies == {id \in DOMAIN heap.families : heap.families[id].held}

\* The inputs of the calls that are followed: the outcomes that decide which
\* objects a call makes (none, one, several), not every native answer.
HeapKeys ==
    {k \in IntOrStr : k.type = "Int" => k.idx \in (0 - 1)..Len(HeapCollection)}
HeapIndexes == {i \in I32 : i \in (0 - 1)..1}
HeapMatchArgs ==
    {a \in MatchArgs : /\ a.weight = None /\ a.style = None /\ a.width = None
                       /\ a.slant = None /\ a.optical_size = None /\ a.italic = None}
HeapMatchEnv(family) ==
    {e \in MatchEnv(family) :
        /\ \A k \in 1..Len(e.list) : e.list[k] = k - 1
        /\ e.failAt \subseteq {GetFontCount(family) - 1}}
HeapSearchKwargs == {Some(<<[name |-> "full_name", val |-> "Regular"]>>)}
HeapSearchEnv ==
    {e \in SearchEnv :
        /\ e.collectionGiven
        /\ e.fail \in {None, Some([call |-> "GetFontFamily", at |-> Len(e.faces) - 1])}}

\* collection[key]: a new FontFamily object, held by the caller
HeapCollectionGetItem ==
    /\ Idle
    /\ FreeIds(heap) # <<>>
    /\ \E key \in HeapKeys, env \in IndexEnv :
            LET done(r) ==
                    /\ heap' =
                         IF r.result.kind = "ok"
                         THEN [heap EXCEPT !.families =
                                (FreeIds(heap)[1] :>
                                    [native |-> [names |-> r.result.value.names,
                                                 fonts |-> r.result.value.fonts],
                                     refs |-> 1, held |-> TRUE]) @@ @]
                         ELSE heap
                    /\ last' = [op |-> "FontCollection.__getitem__", rc |-> 0,
                                kind |-> r.result.kind]
            IN done(collection_getitem(HeapCollection, key, env))
    /\ UNCHANGED caches

\* family[index]
HeapFamilyGetItem ==
    /\ Idle
    /\ \E rc \in HeldFamilies, index \in HeapIndexes, env \in IndexEnv :
            LET done(r) == FamilyCallDone("FontFamily.__getitem__", rc,
                                          r.result.kind, MadeOne(r.result))
            IN done(family_getitem(FamilyObject(heap, rc), index, env))
    /\ UNCHANGED caches

\* family.get_best_variant(**a)
HeapGetBestVariant ==
    /\ Idle
    /\ \E rc \in HeldFamilies, a \in HeapMatchArgs :
        \E env \in HeapMatchEnv(FamilyObject(heap, rc)) :
            LET done(r) == FamilyCallDone("get_best_variant", rc,
                                          r.result.kind, MadeOne(r.result))
            IN done(get_best_variant(FamilyObject(heap, rc), a, env))
    /\ UNCHANGED caches

\* family.get_matching_variants(**a)
HeapGetMatchingVariants ==
    /\ Idle
    /\ \E rc \in HeldFamilies, a \in HeapMatchArgs :
        \E env \in HeapMatchEnv(FamilyObject(heap, rc)) :
            LET done(r) == FamilyCallDone("get_matching_variants", rc,
                                          r.result.kind, MadeMany(r.result))
            IN done(get_matching_variants(FamilyObject(heap, rc), a, env))
    /\ UNCHANGED caches

\* the module-level get_matching_variants
HeapGlobalSearch ==
    /\ Idle
    /\ \E kwargs \in HeapSearchKwargs, env \in HeapSearchEnv :
            /\ 2 * Len(env.faces) <= Len(FreeIds(heap))
            /\ LET done(r) ==
                    /\ heap' = adopt(heap, MadeMany(r.result))
                    /\ last' = [op |-> "module.get_matching_variants", rc |-> 0,
                                kind |-> r.result.kind]
               IN done(global_get_matching_variants(kwargs, env, FreeIds(heap)))
    /\ UNCHANGED caches

\* variant.family: the caller gets a reference to the variant's family
HeapVariantFamily ==
    /\ Idle
    /\ \E v \in DOMAIN heap.variants :
            /\ ~heap.families[heap.variants[v].family].held
            /\ heap' = [heap EXCEPT !.families[heap.variants[v].family] =
                            [@ EXCEPT !.refs = @ + 1, !.held = TRUE]]
    /\ UNCHANGED <<last, caches>>

\* the caller releases a FontVariant: the object goes, and with it its
\* reference to the family
HeapDropVariant ==
    /\ Idle
    /\ \E v \in DOMAIN heap.variants :
            heap' = drop_family_ref([heap EXCEPT !.variants = Without(heap.variants, v)],
                                    heap.variants[v].family, FALSE)
    /\ UNCHANGED <<last, caches>>

\* the caller releases its references to a FontFamily
HeapDropFamily ==
    /\ Idle
    /\ \E f \in HeldFamilies : heap' = drop_family_ref(heap, f, TRUE)
    /\ UNCHANGED <<last, caches>>

NextHeap ==
    \/ HeapCollectionGetItem
    \/ HeapFamilyGetItem
    \/ HeapGetBestVariant
    \/ HeapGetMatchingVariants
    \/ HeapGlobalSearch
    \/ HeapVariantFamily
    \/ HeapDropVariant
    \/ HeapDropFamily
    \/ Return

SpecHeap == Init /\ [][NextHeap]_vars

----------------------------------------------------------------------------
(* Properties of the matching-variant protocol and of indexing.            *)

MatchOps == {"get_best_variant", "get_matching_variants"}
AnyAxis(a) ==
    is_some(a.width) \/ is_some(a.slant) \/ is_some(a.optical_size) \/ is_some(a.italic)
StyleWithAxis(a) == is_some(a.style) /\ AnyAxis(a)

\* C1: whenever style is supplied together with at least one of width, slant,
\* optical_size or italic, get_matching_variants and get_best_variant fail with
\* ValueError (the invalid-argument error) and have made no native call.
C1_InvalidArgumentBeforeNative ==
    (last.op \in MatchOps /\ StyleWithAxis(last.args)) =>
        /\ last.result.kind = "err"
        /\ last.result.exc = "ValueError"
        /\ last.calls = <<>>

\* C1 witness: get_matching_variants(style=NORMAL, width=100) has failed, and so
\* has a get_best_variant call with style and italic.
C1_Witness ==
    /\ last.op = "get_matching_variants"
    /\ last.args.style = Some("NORMAL")
    /\ last.args.width = Some(100)
    /\ last.args.italic = None
    /\ last.result.kind = "err"

\* the first native call of the legacy path, as the claim states it
LegacyCall(a) ==
    [api |-> "GetMatchingFonts", weight |-> unwrap_or(a.weight, DefaultWeight),
     stretch |-> "NORMAL", style |-> unwrap_or(a.style, "NORMAL")]

\* C2 (as stated): a matching query takes the legacy path (GetMatchingFonts
\* with weight defaulting to 400, normal stretch, style defaulting to normal)
\* whenever style is supplied and also whenever width, slant, optical_size and
\* italic are all absent; it takes the modern path only when style is absent
\* and at least one of those four is supplied.
C2_LegacyWhenNoAxis ==
    (last.op \in MatchOps /\ ~StyleWithAxis(last.args)) =>
        IF is_some(last.args.style) \/ ~AnyAxis(last.args)
        THEN last.calls[1] = LegacyCall(last.args)
        ELSE last.calls[1].api = "cast::<IDWriteFontFamily2>"

\* the exception type of a generic native failure (errors.rs)
NativeErrorKind == WindowsFontErrorIntoPyErr(WindowsErr).exc

\* C3 (as stated): when the family cannot be cast to the newer interface, a
\* matching call that sets width, slant, optical_size or italic (and reaches
\* the cast: style absent) fails with an exception type that differs from the
\* type of a generic native failure.
C3_FeatureUnavailableDistinct ==
    (/\ last.op \in MatchOps
     /\ ~last.env.canCast
     /\ last.args.style = None
     /\ AnyAxis(last.args)) =>
        /\ last.result.kind = "err"
        /\ last.result.exc # NativeErrorKind

\* the IDWriteFontList::GetFont calls of a call log
GetFontCalls(calls) ==
    {k \in 1..Len(calls) : calls[k].api = "IDWriteFontList::GetFont"}

\* C4: get_best_variant returns the element get_matching_variants with the
\* same arguments (and the same native answers) has first, the font of native
\* rank 0; fails with "No variants found" when that list is empty; and fetches
\* at most one element of the native list, the one of rank 0.
C4_BestIsFirstMatch ==
    last.op = "get_best_variant" =>
        LET all == get_matching_variants(last.rc, last.args, last.env).result
        IN /\ (all.kind = "ok" /\ Len(all.value) > 0) =>
                    last.result = Ok(all.value[1])
           /\ (all.kind = "ok" /\ Len(all.value) = 0) =>
                    /\ last.result.kind = "err"
                    /\ last.result.msg = "No variants found"
           /\ last.result.kind = "ok" =>
                    last.result.value = FontVariant(last.rc, last.env.list[1])
           /\ Cardinality(GetFontCalls(last.calls)) <= 1
           /\ \A k \in GetFontCalls(last.calls) : last.calls[k].index = 0

\* C4 witness: a best variant was returned from a native list of two or more
\* fonts whose rank 1 is a different font.
C4_Witness ==
    /\ last.op = "get_best_variant"
    /\ last.result.kind = "ok"
    /\ Len(last.env.list) >= 2
    /\ last.env.list[1] # 0
    /\ Cardinality(GetFontCalls(last.calls)) = 1

\* C7 (as stated): FontCollection.__getitem__ with an integer key i fails with
\* IndexError for every i >= count(), and for 0 <= i < count() returns the
\* family at native index i when the native call succeeds.
C7_IndexOutOfRange ==
    (last.op = "FontCollection.__getitem__" /\ last.key.type = "Int") =>
        LET i == last.key.idx
            count == GetFontFamilyCount(last.collection)
        IN /\ i >= count =>
                (last.result.kind = "err" /\ last.result.exc = "IndexError")
           /\ (0 <= i /\ i < count /\ last.env.getOk) =>
                last.result = Ok(WrapFamily(last.collection, i))


----------------------------------------------------------------------------
(* Properties of best-name resolution and of the locale cache.             *)

HasLocale(table, name) == LocaleIndexes(table, name) # {}
IndexOfLocale(table, name) == Min(LocaleIndexes(table, name))
\* a name resolution whose string fetch went through
NameFetched ==
    /\ last.op = "FontFamily.name"
    /\ last.result.kind # "panic"
    /\ last.fails \cap FetchCalls = {}

\* C8 (as stated): the resolved name is the string at the index of the cached
\* preferred locale when the table contains it, otherwise at the index of
\* "en-us" when the table contains that, otherwise at index 0, whatever the
\* native locale lookups return; a locale not found is never a failure.
C8_TableDecidesName ==
    NameFetched =>
        LET table == last.family.names
            user == last.locale[1]
        IN last.result =
            Ok(StringAt(table,
                IF HasLocale(table, user) THEN IndexOfLocale(table, user)
                ELSE IF HasLocale(table, "en-us") THEN IndexOfLocale(table, "en-us")
                ELSE 0))

\* C8 (amended): the resolved name is the string at the index of the cached
\* preferred locale when its lookup succeeds and finds it; otherwise, if that
\* lookup did not fail, at the index of "en-us" when the lookup of "en-us"
\* succeeds and finds it; in every other case, a failed lookup included, at
\* index 0.  Neither a locale not found nor a failed lookup is a failure.
C8_LookupsDecideName ==
    NameFetched =>
        LET table == last.family.names
            user == last.locale[1]
            ok1 == "FindLocaleName(user)" \notin last.fails
            ok2 == "FindLocaleName(en-us)" \notin last.fails
        IN last.result =
            Ok(StringAt(table,
                IF ok1 /\ HasLocale(table, user) THEN IndexOfLocale(table, user)
                ELSE IF ok1 /\ ok2 /\ HasLocale(table, "en-us")
                     THEN IndexOfLocale(table, "en-us")
                ELSE 0))

\* C8 witness: the preferred locale is absent from the table, "en-us" is in it
\* at index 1, and the name returned is the "en-us" string.
C8_Witness ==
    /\ NameFetched
    /\ last.fails = {}
    /\ ~HasLocale(last.family.names, last.locale[1])
    /\ HasLocale(last.family.names, "en-us")
    /\ IndexOfLocale(last.family.names, "en-us") = 1
    /\ last.result = Ok(StringAt(last.family.names, 1))

OsQueries(calls) == {k \in 1..Len(calls) : calls[k].api = "GetUserDefaultLocaleName"}

\* C9 (as stated): the locale cache is process-wide and write-once: over all
\* threads the OS user-locale query runs at most once, and every thread reads
\* the one cached value.
C9_ProcessWideOnce ==
    /\ \A t \in Threads : localeQueries[t] <= 1
    /\ \A t, u \in Threads : (localeQueries[t] > 0 /\ localeQueries[u] > 0) => t = u
    /\ \A t, u \in Threads :
            (is_some(userLocale[t]) /\ is_some(userLocale[u])) => userLocale[t] = userLocale[u]

\* C9 (amended): the locale cache is per thread and write-once per thread.
\* Once a thread's query has succeeded the value is cached: the slot never
\* changes again, the OS is not asked again on that thread, and every later
\* name resolution on that thread looks up that cached value.  A query runs
\* only on the thread that resolves a name, and touches no other thread's slot.
C9_PerThreadWriteOnce ==
    [][\A t \in Threads :
        /\ is_some(userLocale[t]) =>
                /\ userLocale'[t] = userLocale[t]
                /\ localeQueries'[t] = localeQueries[t]
                /\ (last'.op = "FontFamily.name" /\ last'.thread = t) =>
                        /\ OsQueries(last'.calls) = {}
                        /\ \A k \in 1..Len(last'.calls) :
                                (last'.calls[k].api = "FindLocaleName" /\ k = 2) =>
                                    last'.calls[k].locale = userLocale[t][1]
        /\ localeQueries'[t] # localeQueries[t] =>
                (last'.op = "FontFamily.name" /\ last'.thread = t)
        /\ userLocale'[t] # userLocale[t] =>
                (last'.op = "FontFamily.name" /\ last'.thread = t)
    ]_vars

\* C9 witness: two threads have each cached a locale of their own, and the
\* last name resolution ran on a cached value without asking the OS.
C9_Witness ==
    /\ \A t \in {1, 2} : is_some(userLocale[t]) /\ localeQueries[t] = 1
    /\ userLocale[1] # userLocale[2]
    /\ last.op = "FontFamily.name"
    /\ last.result.kind = "ok"
    /\ OsQueries(last.calls) = {}

----------------------------------------------------------------------------
(* Properties of variant equality.                                         *)

AllOk == [findOk |-> TRUE, getOk |-> TRUE]
\* a is family[-1] and b is family[family.count() - 1], of one family object
NegativeIndexPair(a, b) ==
    /\ a.family = b.family
    /\ family_getitem(a.family, 0 - 1, AllOk).result = Ok(a)
    /\ family_getitem(a.family, GetFontCount(a.family) - 1, AllOk).result = Ok(b)
\* a is family.get_best_variant(weight=400, style=NORMAL) and b is
\* family.get_matching_variants(weight=400, style=NORMAL)[0]
BestAndFirstPair(a, b) ==
    /\ a.family = b.family
    /\ \E env \in MatchEnv(a.family) :
         LET args == [weight |-> Some(400), style |-> Some("NORMAL"), width |-> None,
                      slant |-> None, optical_size |-> None, italic |-> None]
             all == get_matching_variants(a.family, args, env).result
         IN /\ all.kind = "ok"
            /\ Len(all.value) > 0
            /\ all.value[1] = b
            /\ get_best_variant(a.family, args, env).result = Ok(a)

\* C5 (as stated): two FontVariant values obtained for the same native face of
\* the same family compare equal under ==: family[-1] == family[count() - 1],
\* and get_best_variant(weight=400, style=NORMAL) ==
\* get_matching_variants(weight=400, style=NORMAL)[0].  Stated here for the
\* comparisons in which no native call fails.
C5_SameFaceEqual ==
    (/\ last.op = "FontVariant.__richcmp__"
     /\ last.cmp = "Eq"
     /\ last.failsA = {} /\ last.failsB = {}
     /\ NegativeIndexPair(last.a, last.b) \/ BestAndFirstPair(last.a, last.b)) =>
        last.result = Ok(TRUE)

\* FontFamily equality on the inputs of the last comparison
LastFamiliesEqual ==
    LET f == family_eq(last.a.family, last.b.family, last.before.slot, last.before.n,
                       last.os, last.failsA, last.failsB)
    IN ~f.panic /\ f.value

----------------------------------------------------------------------------
(* Properties of the local-file loader cache.                              *)

FileOps == {"FontVariant.files", "FontVariant.filename"}
\* the calls of a log that go through the local loader
LoaderCalls(calls) ==
    {k \in 1..Len(calls) :
        calls[k].api \in {"GetFilePathLengthFromKey", "GetFilePathFromKey"}}
BootCalls(calls) ==
    {k \in 1..Len(calls) : calls[k].api = "CreateFontFileReference(Arial.ttf)"}

\* One step, seen from thread t: the loader slot is write-once, the bootstrap
\* runs only inside a path resolution of t and before the loader's first use
\* in it, and t's loader calls use t's own cached handle.
LoaderStep(t) ==
    /\ is_some(localLoader[t]) =>
            /\ localLoader'[t] = localLoader[t]
            /\ loaderBoots'[t] = loaderBoots[t]
    /\ loaderBoots'[t] # loaderBoots[t] =>
            /\ last'.op \in FileOps /\ last'.thread = t
            /\ loaderBoots'[t] = loaderBoots[t] + 1
            /\ Cardinality(BootCalls(last'.calls)) = 1
            /\ \A k \in LoaderCalls(last'.calls) : \A b \in BootCalls(last'.calls) : b < k
            /\ is_some(localLoader'[t]) \/ LoaderCalls(last'.calls) = {}
    /\ (last'.op \in FileOps /\ last'.thread = t) =>
            \A k \in LoaderCalls(last'.calls) :
                /\ last'.calls[k].loader = localLoader'[t]
                /\ last'.calls[k].loader[1].thread = t
                /\ is_some(localLoader[t]) => last'.calls[k].loader = localLoader[t]
    /\ (last'.op \in FileOps /\ last'.thread # t) =>
            localLoader'[t] = localLoader[t]

\* C10 (as stated): on each thread the bootstrap of the local-file loader runs
\* at most once, never before that thread's first use of the loader; every
\* later path resolution on the thread reuses the same handle; a thread never
\* uses a loader initialized by another thread.
C10_BootstrapAtMostOnce ==
    [][\A t \in Threads : LoaderStep(t) /\ loaderBoots'[t] <= 1]_vars

\* C10 (amended): on each thread the bootstrap runs only inside a path
\* resolution of that thread, right before the loader's first use there, and
\* succeeds at most once: once it has succeeded the slot never changes, the
\* bootstrap never runs again on that thread, and every later path resolution
\* there uses that same handle.  A bootstrap that fails stores nothing (and is
\* run again at the thread's next use).  Every loader call of a thread uses a
\* handle made on that thread.
C10_LoaderPerThreadOnce ==
    [][\A t \in Threads : LoaderStep(t)]_vars

\* C10 witness: a thread whose bootstrap failed once and then succeeded has
\* resolved a path with the cached handle, making no bootstrap call, while the
\* other thread holds a handle of its own.
C10_Witness ==
    /\ last.op = "FontVariant.files"
    /\ last.thread = 1
    /\ loaderBoots[1] = 2
    /\ is_some(localLoader[1]) /\ is_some(localLoader[2])
    /\ localLoader[1] # localLoader[2]
    /\ BootCalls(last.calls) = {}
    /\ LoaderCalls(last.calls) # {}
    /\ last.result.kind = "ok"

----------------------------------------------------------------------------
(* Native failures at the boundary.                                        *)

\* the panics of the two thread-local initializers
InitPanics == {"USER_LOCALE initializer panicked", "LOCAL_LOADER initializer panicked"}

\* C11 (as stated): a failure of a native call made while a public operation
\* is served, the initialization of the locale cache and of the local-loader
\* cache aside, reaches the caller as an error value: no operation ends in a
\* panic other than the panic of one of the two initializers.
C11_NativeFailuresRecoverable ==
    last.op # "none" =>
        (last.result.kind = "panic" => last.result.msg \in InitPanics)

----------------------------------------------------------------------------
(* Indexing a family.                                                      *)

\* the calls of a log to the native api
CallsTo(calls, api) == {k \in 1..Len(calls) : calls[k].api = api}

\* C12: family[i] resolves a negative index once, by adding the variant count:
\* for -count <= i < 0 it returns the variant of native index i + count, for
\* 0 <= i < count the variant of native index i (the native fetch answering),
\* and for i >= count or i < -count it fails with IndexError.  The count is
\* read at most once and the font fetched once; a fetch the native layer
\* refuses is reported as IndexError too.
C12_NegativeIndexResolvedOnce ==
    last.op = "FontFamily.__getitem__" =>
        LET i == last.index
            count == GetFontCount(last.rc)
        IN /\ (0 - count <= i /\ i < 0 /\ last.env.getOk) =>
                    last.result = Ok(FontVariant(last.rc, i + count))
           /\ (0 <= i /\ i < count /\ last.env.getOk) =>
                    last.result = Ok(FontVariant(last.rc, i))
           /\ (i >= count \/ i < 0 - count \/ ~last.env.getOk) =>
                    /\ last.result.kind = "err"
                    /\ last.result.exc = "IndexError"
           /\ Cardinality(CallsTo(last.calls, "GetFontCount")) = (IF i < 0 THEN 1 ELSE 0)
           /\ Cardinality(CallsTo(last.calls, "IDWriteFontFamily::GetFont")) = 1

\* C12 witness: family[-count] has returned the first variant of a family of
\* more than one font.
C12_Witness ==
    /\ last.op = "FontFamily.__getitem__"
    /\ GetFontCount(last.rc) > 1
    /\ last.index = 0 - GetFontCount(last.rc)
    /\ last.result = Ok(FontVariant(last.rc, 0))

----------------------------------------------------------------------------
(* Equality of families.                                                   *)

\* the last comparison found the thread's locale slot empty and the OS query
\* for the user locale fails
LocaleInitFails == last.before.slot = None /\ ~get_user_locale(last.os).ok
\* the name of the left and of the right family of the last comparison, the
\* right one resolved after the left one
LeftName ==
    family_get_best_name(last.a, last.before.slot, last.before.n, last.os, last.failsA)
RightName ==
    family_get_best_name(last.b, LeftName.slot, LeftName.n, last.os, last.failsB)
\* both names resolve and are the same string
NamesResolveEqual ==
    /\ LeftName.r.ok
    /\ RightName.r.ok
    /\ LeftName.r.value = RightName.r.value

\* C13 (as stated): a == b on two families is true if and only if both names
\* resolve and are equal; when a name fails to resolve the result is false and
\* nothing is propagated to the caller.
C13_FamilyEquality ==
    (last.op = "FontFamily.__richcmp__" /\ last.cmp = "Eq") =>
        last.result = Ok(NamesResolveEqual)

\* C13 (amended): as stated, except when the thread's locale cache is still
\* empty, the OS query for the user locale fails and the left family's name
\* table was fetched: then the initializer's panic reaches the caller.  In
\* every other case a == b is true exactly when both names resolve and are
\* equal, and a failed resolution gives false.  With the locale available,
\* a == b and b == a agree, and a == a is true exactly when the name resolves
\* (both times).
C13_FamilyEqualityUnlessInitPanics ==
    (last.op = "FontFamily.__richcmp__" /\ last.cmp = "Eq") =>
        /\ (LocaleInitFails /\ "GetFamilyNames" \notin last.failsA) =>
                last.result = Panic("USER_LOCALE initializer panicked")
        /\ ~(LocaleInitFails /\ "GetFamilyNames" \notin last.failsA) =>
                last.result = Ok(NamesResolveEqual)
        /\ ~LocaleInitFails =>
                last.result =
                    family_richcmp(last.b, last.a, "Eq", last.before.slot, last.before.n,
                                   last.os, last.failsB, last.failsA).result
        /\ (~LocaleInitFails /\ last.a = last.b /\ last.failsA = last.failsB) =>
                last.result = Ok(LeftName.r.ok)

\* C13 witness: two family objects whose name tables differ have compared
\* equal, and the right-hand name was resolved through the "en-us" fallback.
C13_Witness ==
    /\ last.op = "FontFamily.__richcmp__"
    /\ last.cmp = "Eq"
    /\ last.a.id # last.b.id
    /\ last.a.names # last.b.names
    /\ last.result = Ok(TRUE)

----------------------------------------------------------------------------
(* The file name of a variant.                                             *)

\* what files() gives for the native answers and the loader slot that the
\* last filename call met
FilesOfLast ==
    files(last.thread, last.env, last.before.slot, last.before.n).result

\* C14: for a variant whose files() has exactly one element, filename is that
\* element; for a variant whose files() has no element or more than one,
\* filename fails with RuntimeError and gives no path.  (When files() itself
\* fails, filename fails the same way.)
C14_FilenameIsTheOnlyFile ==
    last.op = "FontVariant.filename" =>
        /\ (FilesOfLast.kind = "ok" /\ Len(FilesOfLast.value) = 1) =>
                last.result = Ok(FilesOfLast.value[1])
        /\ (FilesOfLast.kind = "ok" /\ Len(FilesOfLast.value) # 1) =>
                /\ last.result.kind = "err"
                /\ last.result.exc = "RuntimeError"
        /\ FilesOfLast.kind # "ok" => last.result = FilesOfLast

\* C14 witness: filename has failed with RuntimeError for a variant backed by
\* two files, both of which files() resolves.
C14_Witness ==
    /\ last.op = "FontVariant.filename"
    /\ FilesOfLast.kind = "ok"
    /\ Len(FilesOfLast.value) = 2
    /\ last.result.kind = "err"
    /\ last.result.exc = "RuntimeError"

----------------------------------------------------------------------------
(* The keys of an InformationDict.                                         *)

\* C16: the list keys() returns is strictly ascending (so without
\* duplicates), every key of it is in the dict, it is as long as len(dict),
\* and it holds only fields of the table whose native query reports that the
\* field exists (and all of those).
C16_KeysSortedAndContained ==
    last.op = "InformationDict.keys" =>
        LET keys == last.result.value
        IN /\ last.result.kind = "ok"
           /\ \A i, j \in 1..Len(keys) : i < j => KeyRank(keys[i]) < KeyRank(keys[j])
           /\ \A i \in 1..Len(keys) :
                    InformationDict_contains(last.env, [type |-> "Str", str |-> keys[i]])
                        = Ok(TRUE)
           /\ InformationDict_len(last.env) = Ok(Len(keys))
           /\ {keys[i] : i \in 1..Len(keys)}
                    = {n \in InfoFieldsDrawn : last.env.answer[n] = "exists"}

\* C16 witness: keys() has returned three keys that the static map hands out
\* in descending order, for a font whose fourth field fails to be queried.
C16_Witness ==
    /\ last.op = "InformationDict.keys"
    /\ Len(last.result.value) = 3
    /\ \E n \in InfoFieldsDrawn : last.env.answer[n] = "error"
    /\ \A i, j \in 1..Len(last.env.order) :
            i < j => KeyRank(last.env.order[i]) > KeyRank(last.env.order[j])

----------------------------------------------------------------------------
(* The module-level search: its filters.                                   *)

\* a filter name the table does not know, or one without a property mapping
BadFilter(name) ==
    \/ name \notin TableNames
    \/ \E k \in 1..Len(INFO_STRING_NAMES) :
            INFO_STRING_NAMES[k].name = name /\ INFO_STRING_NAMES[k].property = "NONE"

\* C15: the module-level search fails with TypeError, having made no native
\* call, whenever one of the filter names is unknown to the table or has no
\* property mapping, however many other filters are valid and in whatever
\* order the filters are examined; and also when no filter is passed.
C15_BadFilterRejectedBeforeNative ==
    (/\ last.op = "module.get_matching_variants"
     /\ \/ last.kwargs = None
        \/ \E k \in 1..Len(last.kwargs[1]) : BadFilter(last.kwargs[1][k].name)) =>
        /\ last.result.kind = "err"
        /\ last.result.exc = "TypeError"
        /\ last.calls = <<>>

\* C15 witness: a search with two valid filters examined first and a filter
\* without a property mapping examined last has been rejected.
C15_Witness ==
    /\ last.op = "module.get_matching_variants"
    /\ last.kwargs # None
    /\ Len(last.kwargs[1]) = 3
    /\ ~BadFilter(last.kwargs[1][1].name)
    /\ ~BadFilter(last.kwargs[1][2].name)
    /\ last.kwargs[1][3].name = "copyright"
    /\ last.result.kind = "err"
    /\ last.calls = <<>>

----------------------------------------------------------------------------
(* Ownership among the objects.                                            *)

\* the objects reached from the objects of S by one ownership edge
OwnedBy(h, S) == UNION {Owns(h, id) : id \in S}
\* ... and by n edges or fewer, n >= 1
RECURSIVE OwnedWithin(_, _, _)
OwnedWithin(h, S, n) ==
    IF n = 1 THEN OwnedBy(h, S)
    ELSE OwnedBy(h, S) \cup OwnedWithin(h, OwnedBy(h, S), n - 1)

\* the FontVariant objects whose field `family` is the object f
VariantsOf(h, f) == {v \in DOMAIN h.variants : h.variants[v].family = f}

HeapInv(h) ==
    \* a live FontVariant points to a live FontFamily, and its reference is counted
    /\ \A v \in DOMAIN h.variants : h.variants[v].family \in DOMAIN h.families
    /\ \A f \in DOMAIN h.families :
            /\ h.families[f].refs >= 1
            /\ h.families[f].refs =
                   Cardinality(VariantsOf(h, f)) + (IF h.families[f].held THEN 1 ELSE 0)
    \* a FontFamily owns no object, and no object reaches itself
    /\ \A f \in DOMAIN h.families : Owns(h, f) = {}
    /\ \A id \in LiveIds(h) : id \notin OwnedWithin(h, {id}, MaxObjects)

\* the FontVariant objects made by the step
NewVariants == DOMAIN heap'.variants \ DOMAIN heap.variants

FamilyOps == {"FontFamily.__getitem__", "get_best_variant", "get_matching_variants"}

\* what the step made points where it should
ProducedFrom ==
    /\ last'.op \in FamilyOps =>
            \A v \in NewVariants :
                /\ heap'.variants[v].family = last'.rc
                /\ last'.rc \in DOMAIN heap.families
                /\ heap'.families[last'.rc].native = heap.families[last'.rc].native
    /\ last'.op = "module.get_matching_variants" =>
            \A v \in NewVariants :
                /\ heap'.variants[v].family \notin LiveIds(heap)
                /\ VariantsOf(heap', heap'.variants[v].family) = {v}
                /\ heap'.families[heap'.variants[v].family].refs = 1

\* C17: after any sequence of indexing, matching and global-search calls (and
\* of releases), the ownership graph is acyclic: every live FontVariant holds
\* a counted strong reference to a FontFamily that is alive, no FontFamily
\* owns any object, a variant made by family indexing or family matching
\* points to the very family object the call was made on, and each variant
\* made by the module-level search points to a family object that did not
\* exist before the call and that no other variant shares.
C17_OwnershipAcyclic == HeapInv(heap) /\ [][HeapInv(heap') /\ ProducedFrom]_vars

\* a module-level search has just returned a variant with a family of its
\* own, while a variant made from a family the caller holds is live too
C17_Witness ==
    /\ last.op = "module.get_matching_variants"
    /\ last.kind = "ok"
    /\ \E v, w \in DOMAIN heap.variants :
            /\ heap.families[heap.variants[v].family].held
            /\ ~heap.families[heap.variants[w].family].held
            /\ heap.variants[v].family # heap.variants[w].family

=============================================================================
